---- MODULE Spec2Model ----
(***************************************************************************)
(* Run orchestration engine of the stash backend                           *)
(* (backend-service/stash_backend/orchestrator.py).                        *)
(*                                                                         *)
(* One asyncio event loop runs every coroutine of RunOrchestrator: the     *)
(* background task of each run (_execute_run) and the cancel_run handler.  *)
(* A coroutine keeps the loop from the moment it is stepped until it       *)
(* suspends or ends; _execute_run suspends only at                         *)
(* `await asyncio.to_thread(self.codex.execute, ...)` (line 203), and      *)
(* cancel_run never suspends.  The command itself runs in a worker thread. *)
(* `current` is the coroutine that owns the loop thread; every position    *)
(* inside a coroutine is named after the source line it is about to run.   *)
(***************************************************************************)
EXTENDS Integers, Sequences, FiniteSets, TLC

\* ------------------------------------------------------------------ bounds
MaxRuns == 2          \* start_run calls
MaxCmds == 2          \* commands planned by the planner, all runs together
MaxCancels == 1       \* cancel_run calls per project that find an active task
MaxHits == 1          \* hits returned by the index search
MaxWriters == 3       \* threads calling create_message at the same time
MaxIndexers == 2      \* threads calling index_asset at the same time
MaxRounds == 2        \* index_asset calls of each thread
MaxAssets == 1        \* assets of the project
MaxText == 7          \* characters of the longest asset text
ChunkSize == 3        \* Settings.chunk_size_chars
ChunkOverlap == 1     \* Settings.chunk_overlap_chars
MaxMessageRows == 2   \* rows of the messages table of the conversation store
MaxRunRows == 1       \* rows of its runs table
MaxEventRows == 1     \* rows of its events table
MaxProjects == 3      \* project stores ever created on disk

RunIds == 1..MaxRuns
Projects == {"p1"}
\* the projects the store holds: runs of the second one appear in HungSpec only
AllProjects == Projects \cup {"p2"}
Conversation == "c1"
Conversations == {Conversation, "c2"}
Writers == 1..MaxWriters
Indexers == 1..MaxIndexers
Roots == {"/a", "/b"}
\* lengths of the asset texts: both give more than one chunk
TextLengths == {MaxText - 2, MaxText}
\* exit codes a command can return: zero and one nonzero value
ExitCodes == {0, 1}
\* trigger_message_id inputs of start_run: 1 is the stored user message, 0 is no message
TriggerIds == {0, 1}

VARIABLES
    runs,       \* runs table: run id -> Run record
    steps,      \* run_steps table of each project, in creation order
    events,     \* event log of each project, in append order
    messages,   \* messages table of each project, in creation order
    lock,       \* context.lock of each project: Free or the coroutine holding it
    _tasks,     \* RunOrchestrator._tasks: the run ids that have a tracked task
    task,       \* run id -> state of its asyncio task (position, locals, awaited future)
    thread,     \* run id -> "idle" | "busy": worker thread running codex.execute
    current,    \* the coroutine that occupies the event loop thread
    cancelCall, \* frame of the cancel_run call in progress: run_id argument, return value
    logged,     \* run ids for which "RAG context preparation failed" was logged
    writer,     \* thread id -> frame of its create_message call
    assets,     \* assets table: asset id -> Asset record
    chunks,     \* chunks table, in insertion order
    embeddings, \* embeddings table, in insertion order
    indexing,   \* thread id -> frame of its index_asset call
    repo,       \* conversation tables of one project and its active_conversation_id
    reply,      \* the delete_conversation call, if that was the last repository call:
                \* argument, return value, state before
    project_store,  \* ProjectStore: the projects loaded in memory
    disk,           \* root path -> project id of the store kept under it, 0 if the root is missing
    runtime_config, \* persisted active_project_id (0 for None) and active_project_root_path
    service         \* phase of the service process, the config it found at startup,
                    \* the number of project ids handed out

orchestratorVars == <<runs, steps, events, messages, lock, _tasks, task, thread, current,
                      cancelCall, logged>>
\* state of the components the orchestrator does not touch
indexVars == <<assets, chunks, embeddings, indexing>>
convVars == <<repo, reply>>
storeVars == <<project_store, disk, runtime_config, service>>
subsystems == <<writer, indexVars, convVars, storeVars>>
vars == <<orchestratorVars, subsystems>>

Idle == [kind |-> "idle", run_id |-> 0]
Free == [kind |-> "free", run_id |-> 0]
TaskOf(r) == [kind |-> "task", run_id |-> r]
CancelOf(r) == [kind |-> "cancel_run", run_id |-> r]
NoPlan == [called |-> FALSE, commands |-> 0]
NoResult == [kind |-> "none", exit_code |-> 0]
NoWrite == [pc |-> "idle", conversation_id |-> "", max_sequence |-> 0]
WriterOf(w) == [kind |-> "thread", run_id |-> w]
NoIndexing == [pc |-> "idle", asset_id |-> 0, calls |-> 0, chunk_ids |-> <<>>]
IndexerOf(t) == [kind |-> "indexer", run_id |-> t]
None == "none"
EmptyRepo == [conversations |-> {}, created |-> {}, active_conversation_id |-> None,
              messages |-> {}, attachments |-> {}, runs |-> {}, run_steps |-> {},
              change_sets |-> {}, events |-> {}]
\* ret is <<>> for a call that returned None, else <<value>>
NoReply == [op |-> "none", id |-> None, ret |-> <<>>, before |-> EmptyRepo, assets |-> <<>>]
NoConfig == [active_project_id |-> 0, active_project_root_path |-> None]
NoCall == [run_id |-> 0, pc |-> "none", ret |-> <<>>]

\* str(n) and the two output_summary formats (lines 292 and 306)
FailedSummary(n, f) == ToString(n) \o " step(s), " \o ToString(f) \o " failed"
DoneSummary(n) == ToString(n) \o " step(s) executed"

\* ProjectRepository (stash_backend/db.py)
create_run(conversation_id, trigger_message_id, project_id) ==
    [status |-> "pending", finished |-> FALSE, output_summary |-> "", error |-> "",
     conversation_id |-> conversation_id, trigger_message_id |-> trigger_message_id,
     project_id |-> project_id]

get_message(msgs, conversation_id, message_id) ==
    \E i \in 1..Len(msgs) : msgs[i].id = message_id /\ msgs[i].conversation_id = conversation_id

update_run(rs, run_id, fields) ==
    [rs EXCEPT ![run_id] =
        [k \in DOMAIN @ |-> IF k \in DOMAIN fields THEN fields[k] ELSE @[k]]]

add_event(log, type, run_id, payload) ==
    Append(log, [type |-> type, run_id |-> run_id, payload |-> payload])

MaxSeq(msgs, conversation_id) ==
    LET S == {msgs[i].sequence_no : i \in {j \in 1..Len(msgs) : msgs[j].conversation_id = conversation_id}}
    IN IF S = {} THEN 0 ELSE CHOOSE m \in S : \A x \in S : x <= m

\* the insert of create_message, given the sequence number it computed
InsertMessage(msgs, conversation_id, role, run_id, step_index, sequence_no) ==
    Append(msgs, [id |-> Len(msgs) + 1, conversation_id |-> conversation_id, role |-> role,
                  run_id |-> run_id, step_index |-> step_index,
                  sequence_no |-> sequence_no])

\* create_message run without interruption: read the maximum, insert maximum + 1
create_message(msgs, conversation_id, role, run_id, step_index) ==
    InsertMessage(msgs, conversation_id, role, run_id, step_index,
                  MaxSeq(msgs, conversation_id) + 1)

create_run_step(tbl, run_id, step_index) ==
    Append(tbl, [id |-> Len(tbl) + 1, run_id |-> run_id, step_index |-> step_index,
                 kind |-> "codex_cmd", status |-> "running", exit_code |-> -1, error |-> ""])

finish_run_step(tbl, step_id, status, exit_code, error) ==
    [tbl EXCEPT ![step_id].status = status, ![step_id].exit_code = exit_code,
                ![step_id].error = error]

\* asyncio.Task.done()
TaskDone(r) == task[r].pc \in {"finished", "cancelled"}

NewTask == [pc |-> "start", must_cancel |-> FALSE, fut |-> "none", result |-> NoResult,
            plan |-> NoPlan, rag_hits |-> 0, failures |-> 0, step_index |-> 0,
            step_id |-> 0, exc |-> "", cancelling |-> FALSE, tool_summaries |-> <<>>]

\* ------------------------------------------------------------------ initial state
Init ==
    /\ runs = <<>>
    /\ steps = [p \in AllProjects |-> <<>>]
    /\ events = [p \in AllProjects |-> <<>>]
    /\ messages = [p \in AllProjects |->
          <<[id |-> 1, conversation_id |-> Conversation, role |-> "user", run_id |-> 0,
             step_index |-> 0, sequence_no |-> 1]>>]
    /\ lock = [p \in AllProjects |-> Free]
    /\ _tasks = {}
    /\ task = <<>>
    /\ thread = <<>>
    /\ current = Idle
    /\ cancelCall = NoCall
    /\ logged = {}
    /\ writer = [w \in Writers |-> NoWrite]
    /\ assets = <<>>
    /\ chunks = <<>>
    /\ embeddings = <<>>
    /\ indexing = [t \in Indexers |-> NoIndexing]
    /\ repo = EmptyRepo
    /\ reply = NoReply
    /\ project_store = {}
    /\ disk = [root \in Roots |-> 0]
    /\ runtime_config = NoConfig
    /\ service = [phase |-> "up", config_at_boot |-> NoConfig, minted |-> 0]

\* ------------------------------------------------------------------ start_run
start_run(project_id, trigger_message_id) ==
    /\ current = Idle
    /\ Len(runs) < MaxRuns
    /\ runs' = Append(runs, create_run(Conversation, trigger_message_id, project_id))
    /\ task' = Append(task, NewTask)
    /\ thread' = Append(thread, "idle")
    /\ _tasks' = _tasks \cup {Len(runs) + 1}
    /\ UNCHANGED <<steps, events, messages, lock, current, cancelCall, logged, subsystems>>

\* ------------------------------------------------------------------ _execute_run
ProjectOf(r) == runs[r].project_id
At(r, label) == r \in 1..Len(runs) /\ current = TaskOf(r) /\ task[r].pc = label
\* `with context.lock:` entered and left; the variants below enter or leave
\* without touching the lock
AcquireNothing(r) == lock[ProjectOf(r)] = Free /\ UNCHANGED lock
ReleaseNothing(r) == lock[ProjectOf(r)] = TaskOf(r) /\ UNCHANGED lock
Acquire(r) == lock[ProjectOf(r)] = Free /\ lock' = [lock EXCEPT ![ProjectOf(r)] = TaskOf(r)]
Release(r) == lock[ProjectOf(r)] = TaskOf(r) /\ lock' = [lock EXCEPT ![ProjectOf(r)] = Free]
Holding(r) == lock[ProjectOf(r)] = TaskOf(r) /\ UNCHANGED lock
Goto(r, label) == task' = [task EXCEPT ![r].pc = label]

FirstStepIgnoringCancel(r) ==
    /\ r \in 1..Len(runs)
    /\ current = Idle
    /\ task[r].pc = "start"
    /\ task' = [task EXCEPT ![r].pc = "L131", ![r].must_cancel = FALSE]
    /\ current' = TaskOf(r)
    /\ UNCHANGED <<runs, steps, events, messages, lock, _tasks, thread, cancelCall, logged, subsystems>>

\* The loop steps the task for the first time.  A task cancelled before that
\* step gets CancelledError thrown into the unstarted coroutine: the body,
\* its handlers and its finally clause never run.
FirstStep(r) ==
    /\ r \in 1..Len(runs)
    /\ current = Idle
    /\ task[r].pc = "start"
    /\ IF task[r].must_cancel
          THEN /\ task' = [task EXCEPT ![r].pc = "cancelled", ![r].must_cancel = FALSE]
               /\ UNCHANGED current
          ELSE /\ Goto(r, "L131")
               /\ current' = TaskOf(r)
    /\ UNCHANGED <<runs, steps, events, messages, lock, _tasks, thread, cancelCall, logged, subsystems>>

L131(r) ==
    /\ At(r, "L131")
    /\ Acquire(r)
    /\ runs' = update_run(runs, r, [status |-> "running"])
    /\ Goto(r, "L133")
    /\ UNCHANGED <<steps, events, messages, _tasks, thread, current, cancelCall, logged, subsystems>>

L133(r) ==
    /\ At(r, "L133")
    /\ events' = [events EXCEPT ![ProjectOf(r)] =
          add_event(@, "run_started", r, [trigger_message_id |-> runs[r].trigger_message_id])]
    /\ Release(r)
    /\ Goto(r, "L135")
    /\ UNCHANGED <<runs, steps, messages, _tasks, thread, current, cancelCall, logged, subsystems>>

\* lines 136-137: `if not trigger_msg: raise RuntimeError(...)`
TriggerCheckNone(t, found) == [t EXCEPT !.pc = "L140"]

TriggerCheck(t, found) ==
    IF found THEN [t EXCEPT !.pc = "L140"]
    ELSE [t EXCEPT !.pc = "L327", !.exc = "Trigger message not found"]

L135(r) ==
    /\ At(r, "L135")
    /\ task' = [task EXCEPT ![r] = TriggerCheck(@,
          get_message(messages[ProjectOf(r)], runs[r].conversation_id,
                      runs[r].trigger_message_id))]
    /\ UNCHANGED <<runs, steps, events, messages, lock, _tasks, thread, current, cancelCall, logged, subsystems>>

\* load_skill_bundle returns or raises
L140(r) ==
    /\ At(r, "L140")
    /\ \E ok \in BOOLEAN :
          IF ok THEN Goto(r, "L143")
          ELSE task' = [task EXCEPT ![r].pc = "L327", ![r].exc = "skill bundle load failed"]
    /\ UNCHANGED <<runs, steps, events, messages, lock, _tasks, thread, current, cancelCall, logged, subsystems>>

\* lines 149-150: the except clause of the RAG block leaves rag_hits = [] and logs
RagExceptCrash(t) == [t EXCEPT !.pc = "L327", !.exc = "index failed"]

RagExcept(t) == [t EXCEPT !.pc = "L153", !.rag_hits = 0]

RagFailed(r) ==
    /\ task' = [task EXCEPT ![r] = RagExcept(@)]
    /\ logged' = logged \cup {r}

\* indexer.scan_project_files returns or raises
L143(r) ==
    /\ At(r, "L143")
    /\ \E ok \in BOOLEAN :
          IF ok THEN Goto(r, "L144") /\ UNCHANGED logged
          ELSE RagFailed(r)
    /\ UNCHANGED <<runs, steps, events, messages, lock, _tasks, thread, current, cancelCall, subsystems>>

\* indexer.search returns its hits or raises
L144(r) ==
    /\ At(r, "L144")
    /\ \/ \E k \in 0..MaxHits :
             /\ task' = [task EXCEPT ![r].pc = "L153", ![r].rag_hits = k]
             /\ UNCHANGED logged
       \/ RagFailed(r)
    /\ UNCHANGED <<runs, steps, events, messages, lock, _tasks, thread, current, cancelCall, subsystems>>

\* commands of the plans the planner has returned so far
Planned ==
    LET sum[k \in 0..Len(task)] == IF k = 0 THEN 0 ELSE task[k].plan.commands + sum[k - 1]
    IN sum[Len(task)]

\* the planner's error leaves _execute_run past its `except Exception` clause
PlannerRaisedEscapes(t) ==
    [t EXCEPT !.pc = "L342", !.plan = [called |-> TRUE, commands |-> 0],
              !.exc = "planner failed"]

\* lines 153-158 and 326: planner.plan raised, no clause catches it before
\* `except Exception`
PlannerRaised(t) ==
    [t EXCEPT !.pc = "L327", !.plan = [called |-> TRUE, commands |-> 0],
              !.exc = "planner failed"]

\* planner.plan returns a plan or raises
L153(r) ==
    /\ At(r, "L153")
    /\ \/ \E n \in 0..(MaxCmds - Planned) :
             task' = [task EXCEPT ![r].pc = "L164", ![r].plan = [called |-> TRUE, commands |-> n]]
       \/ task' = [task EXCEPT ![r] = PlannerRaised(@)]
    /\ UNCHANGED <<runs, steps, events, messages, lock, _tasks, thread, current, cancelCall, logged, subsystems>>

\* lines 164-182: run_planned in its own critical section, then the loop header
L164(r) ==
    /\ At(r, "L164")
    /\ lock[ProjectOf(r)] = Free
    /\ events' = [events EXCEPT ![ProjectOf(r)] =
          add_event(@, "run_planned", r,
                    [command_count |-> task[r].plan.commands, rag_hit_count |-> task[r].rag_hits])]
    /\ task' = [task EXCEPT ![r].failures = 0, ![r].tool_summaries = <<>>,
                            ![r].step_index = IF task[r].plan.commands > 0 THEN 1 ELSE 0,
                            ![r].pc = IF task[r].plan.commands > 0 THEN "L183" ELSE "L272"]
    /\ UNCHANGED <<runs, steps, messages, lock, _tasks, thread, current, cancelCall, logged, subsystems>>

L183(r) ==
    /\ At(r, "L183")
    /\ Acquire(r)
    /\ steps' = [steps EXCEPT ![ProjectOf(r)] = create_run_step(@, r, task[r].step_index)]
    /\ task' = [task EXCEPT ![r].step_id = Len(steps[ProjectOf(r)]) + 1, ![r].pc = "L195"]
    /\ UNCHANGED <<runs, events, messages, _tasks, thread, current, cancelCall, logged, subsystems>>

L195(r) ==
    /\ At(r, "L195")
    /\ events' = [events EXCEPT ![ProjectOf(r)] =
          add_event(@, "run_step_started", r,
                    [step_id |-> task[r].step_id, step_index |-> task[r].step_index])]
    /\ Release(r)
    /\ Goto(r, "L203")
    /\ UNCHANGED <<runs, steps, messages, _tasks, thread, current, cancelCall, logged, subsystems>>

\* the command called on the event loop itself: the task keeps the loop while
\* the command runs
L203OnLoop(r) ==
    /\ At(r, "L203")
    /\ task' = [task EXCEPT ![r].pc = "await203", ![r].fut = "pending", ![r].result = NoResult]
    /\ thread' = [thread EXCEPT ![r] = "busy"]
    /\ UNCHANGED <<runs, steps, events, messages, lock, _tasks, current, cancelCall, logged, subsystems>>

\* await asyncio.to_thread(...): the command goes to a worker thread and the
\* task suspends on the future, giving the loop back
L203(r) ==
    /\ At(r, "L203")
    /\ task' = [task EXCEPT ![r].pc = "await203", ![r].fut = "pending", ![r].result = NoResult]
    /\ thread' = [thread EXCEPT ![r] = "busy"]
    /\ current' = Idle
    /\ UNCHANGED <<runs, steps, events, messages, lock, _tasks, cancelCall, logged, subsystems>>

\* The worker thread finishes the command and hands its outcome to the loop:
\* the future gets the result unless it was cancelled meanwhile, in which case
\* the outcome is dropped.
ExecReturn(r, outcome) ==
    /\ r \in 1..Len(runs)
    /\ current = Idle
    /\ thread[r] = "busy"
    /\ thread' = [thread EXCEPT ![r] = "idle"]
    /\ IF task[r].fut = "pending"
          THEN task' = [task EXCEPT ![r].fut = "done", ![r].result = outcome]
          ELSE UNCHANGED task
    /\ UNCHANGED <<runs, steps, events, messages, lock, _tasks, current, cancelCall, logged, subsystems>>

\* Where line 203 continues: CancelledError is no Exception, so the inner
\* `except (CodexCommandError, RuntimeError)` lets it through to line 316; an
\* executor error goes to line 256; a result goes on at line 204.
ResumeSwallowCancel(t) ==
    IF t.fut = "cancelled" \/ t.must_cancel
       THEN [t EXCEPT !.pc = "L257", !.fut = "none", !.must_cancel = FALSE]
       ELSE IF t.result.kind = "error"
               THEN [t EXCEPT !.pc = "L257", !.fut = "none"]
               ELSE [t EXCEPT !.pc = "L217", !.fut = "none"]

\* a returned command sends the task straight to the next command, past
\* lines 204-254
ResumeSkipCompletion(t) ==
    IF t.fut = "cancelled" \/ t.must_cancel
       THEN [t EXCEPT !.pc = "L317", !.fut = "none", !.must_cancel = FALSE, !.cancelling = TRUE]
       ELSE [t EXCEPT !.pc = "L183", !.fut = "none", !.step_index = @ + 1]

Resume(t) ==
    IF t.fut = "cancelled" \/ t.must_cancel
       THEN [t EXCEPT !.pc = "L317", !.fut = "none", !.must_cancel = FALSE, !.cancelling = TRUE]
       ELSE IF t.result.kind = "error"
               THEN [t EXCEPT !.pc = "L257", !.fut = "none"]
               ELSE [t EXCEPT !.pc = "L217", !.fut = "none"]

\* The loop resumes the task at line 203 once its future is done or cancelled:
\* with CancelledError when cancel() was requested, with the executor's error
\* when it raised, with the result otherwise.
Wakeup(r) ==
    /\ r \in 1..Len(runs)
    /\ current = Idle
    /\ task[r].pc = "await203"
    /\ task[r].fut \in {"done", "cancelled"}
    /\ current' = TaskOf(r)
    /\ task' = [task EXCEPT ![r] = Resume(@)]
    /\ UNCHANGED <<runs, steps, events, messages, lock, _tasks, thread, cancelCall, logged, subsystems>>

NextCommandStopOnFailure(t) ==
    IF t.step_index < t.plan.commands /\ t.failures = 0
       THEN [t EXCEPT !.step_index = @ + 1, !.pc = "L183"]
       ELSE [t EXCEPT !.pc = "L272"]

\* lines 181-182: next command of the plan, or out of the loop
NextCommand(t) ==
    IF t.step_index < t.plan.commands
       THEN [t EXCEPT !.step_index = @ + 1, !.pc = "L183"]
       ELSE [t EXCEPT !.pc = "L272"]

\* every returned command counts as completed
StepStatusCompleted(exit_code) == "completed"

\* line 217
StepStatus(exit_code) == IF exit_code = 0 THEN "completed" ELSE "failed"

CountExitNever(failures, exit_code) == failures

\* lines 218-219
CountExit(failures, exit_code) == IF exit_code # 0 THEN failures + 1 ELSE failures

\* lines 217-222
L217(r) ==
    /\ At(r, "L217")
    /\ Acquire(r)
    /\ steps' = [steps EXCEPT ![ProjectOf(r)] =
          finish_run_step(@, task[r].step_id, StepStatus(task[r].result.exit_code),
                          task[r].result.exit_code, "")]
    /\ task' = [task EXCEPT ![r].failures = CountExit(@, task[r].result.exit_code),
                            ![r].pc = "L231"]
    /\ UNCHANGED <<runs, events, messages, _tasks, thread, current, cancelCall, logged, subsystems>>

L231(r) ==
    /\ At(r, "L231")
    /\ Holding(r)
    /\ events' = [events EXCEPT ![ProjectOf(r)] =
          add_event(@, "run_step_completed", r,
                    [step_id |-> task[r].step_id, step_index |-> task[r].step_index,
                     status |-> StepStatus(task[r].result.exit_code),
                     exit_code |-> task[r].result.exit_code])]
    /\ Goto(r, "L237")
    /\ UNCHANGED <<runs, steps, messages, _tasks, thread, current, cancelCall, logged, subsystems>>

\* lines 237-254, then the loop header
L237(r) ==
    /\ At(r, "L237")
    /\ messages' = [messages EXCEPT ![ProjectOf(r)] =
          create_message(@, runs[r].conversation_id, "tool", r, task[r].step_index)]
    /\ Release(r)
    /\ task' = [task EXCEPT ![r] = NextCommand(
          [@ EXCEPT !.tool_summaries =
              Append(@, [step_index |-> task[r].step_index,
                         exit_code |-> task[r].result.exit_code])])]
    /\ UNCHANGED <<runs, steps, events, _tasks, thread, current, cancelCall, logged, subsystems>>

\* lines 256-259: except (CodexCommandError, RuntimeError)
L257(r) ==
    /\ At(r, "L257")
    /\ Acquire(r)
    /\ steps' = [steps EXCEPT ![ProjectOf(r)] =
          finish_run_step(@, task[r].step_id, "failed", -1, "command error")]
    /\ task' = [task EXCEPT ![r].failures = @ + 1, ![r].pc = "L260"]
    /\ UNCHANGED <<runs, events, messages, _tasks, thread, current, cancelCall, logged, subsystems>>

\* lines 260-266, then the loop header
L260(r) ==
    /\ At(r, "L260")
    /\ events' = [events EXCEPT ![ProjectOf(r)] =
          add_event(@, "run_step_completed", r,
                    [step_id |-> task[r].step_id, step_index |-> task[r].step_index,
                     status |-> "failed", error |-> "command error"])]
    /\ Release(r)
    /\ task' = [task EXCEPT ![r] = NextCommand(
          [@ EXCEPT !.tool_summaries =
              Append(@, [step_index |-> task[r].step_index, exit_code |-> -1])])]
    /\ UNCHANGED <<runs, steps, messages, _tasks, thread, current, cancelCall, logged, subsystems>>

\* lines 268-280
L272(r) ==
    /\ At(r, "L272")
    /\ Acquire(r)
    /\ messages' = [messages EXCEPT ![ProjectOf(r)] =
          create_message(@, runs[r].conversation_id, "assistant", r, 0)]
    /\ Goto(r, "L281")
    /\ UNCHANGED <<runs, steps, events, _tasks, thread, current, cancelCall, logged, subsystems>>

\* message_finalized closes a critical section of its own
L281ReleaseEarly(r) ==
    /\ At(r, "L281")
    /\ events' = [events EXCEPT ![ProjectOf(r)] =
          add_event(@, "message_finalized", r,
                    [message_id |-> Len(messages[ProjectOf(r)])])]
    /\ Release(r)
    /\ Goto(r, "L288")
    /\ UNCHANGED <<runs, steps, messages, _tasks, thread, current, cancelCall, logged, subsystems>>

L281(r) ==
    /\ At(r, "L281")
    /\ Holding(r)
    /\ events' = [events EXCEPT ![ProjectOf(r)] =
          add_event(@, "message_finalized", r,
                    [message_id |-> Len(messages[ProjectOf(r)])])]
    /\ Goto(r, "L288")
    /\ UNCHANGED <<runs, steps, messages, _tasks, thread, current, cancelCall, logged, subsystems>>

\* lines 288-295 and 302-308
L288(r) ==
    /\ At(r, "L288")
    /\ Holding(r)
    /\ runs' = IF task[r].failures # 0
          THEN update_run(runs, r,
                  [status |-> "failed",
                   output_summary |-> FailedSummary(task[r].plan.commands, task[r].failures),
                   error |-> "One or more run steps failed", finished |-> TRUE])
          ELSE update_run(runs, r,
                  [status |-> "done", output_summary |-> DoneSummary(task[r].plan.commands),
                   finished |-> TRUE])
    /\ Goto(r, "L296")
    /\ UNCHANGED <<steps, events, messages, _tasks, thread, current, cancelCall, logged, subsystems>>

\* lines 296-301 and 309-314
L296(r) ==
    /\ At(r, "L296")
    /\ events' = [events EXCEPT ![ProjectOf(r)] =
          IF task[r].failures # 0
             THEN add_event(@, "run_failed", r, [failures |-> task[r].failures])
             ELSE add_event(@, "run_completed", r, [steps |-> task[r].plan.commands])]
    /\ Release(r)
    /\ Goto(r, "L342")
    /\ UNCHANGED <<runs, steps, messages, _tasks, thread, current, cancelCall, logged, subsystems>>

\* lines 316-318: except asyncio.CancelledError
L317(r) ==
    /\ At(r, "L317")
    /\ Acquire(r)
    /\ runs' = update_run(runs, r, [status |-> "cancelled", finished |-> TRUE])
    /\ Goto(r, "L319")
    /\ UNCHANGED <<steps, events, messages, _tasks, thread, current, cancelCall, logged, subsystems>>

\* lines 319-325: the event, then `raise` into the finally clause
L319(r) ==
    /\ At(r, "L319")
    /\ events' = [events EXCEPT ![ProjectOf(r)] =
          add_event(@, "run_cancelled", r, [reason |-> "cancelled"])]
    /\ Release(r)
    /\ Goto(r, "L342")
    /\ UNCHANGED <<runs, steps, messages, _tasks, thread, current, cancelCall, logged, subsystems>>

\* lines 328-334: the fields update_run receives in `except Exception`
CrashFieldsUnfinished(exc) ==
    [status |-> "failed", output_summary |-> "Run crashed", error |-> exc]

CrashFields(exc) ==
    [status |-> "failed", output_summary |-> "Run crashed", error |-> exc, finished |-> TRUE]

\* lines 326-334: except Exception
L327(r) ==
    /\ At(r, "L327")
    /\ Acquire(r)
    /\ runs' = update_run(runs, r, CrashFields(task[r].exc))
    /\ Goto(r, "L335")
    /\ UNCHANGED <<steps, events, messages, _tasks, thread, current, cancelCall, logged, subsystems>>

L335(r) ==
    /\ At(r, "L335")
    /\ events' = [events EXCEPT ![ProjectOf(r)] =
          add_event(@, "run_failed", r, [error |-> task[r].exc])]
    /\ Release(r)
    /\ Goto(r, "L342")
    /\ UNCHANGED <<runs, steps, messages, _tasks, thread, current, cancelCall, logged, subsystems>>

\* lines 341-342: finally; the coroutine ends and so does the task
L342(r) ==
    /\ At(r, "L342")
    /\ _tasks' = _tasks \ {r}
    /\ Goto(r, IF task[r].cancelling THEN "cancelled" ELSE "finished")
    /\ current' = Idle
    /\ UNCHANGED <<runs, steps, events, messages, lock, thread, cancelCall, logged, subsystems>>

\* ------------------------------------------------------------------ cancel_run
TaskActiveAlways(r) == TRUE

\* line 115: `if task and not task.done()`
TaskActive(r) == r \in _tasks /\ ~TaskDone(r)

\* asyncio.Task.cancel() on a task that is not done: cancel the future the task
\* waits on when that is still possible, else mark the task to be cancelled at
\* its next step
\* cancel_run without its task.cancel()
TaskCancelNothing(t) == t

TaskCancel(t) ==
    IF t.fut = "pending" THEN [t EXCEPT !.fut = "cancelled"]
    ELSE [t EXCEPT !.must_cancel = TRUE]

\* cancel_run calls of project p that took the active branch so far: one
\* run_cancelled{user_request} event each (line 119)
ActiveCancels(p) ==
    Cardinality({i \in 1..Len(events[p]) :
                    /\ events[p][i].type = "run_cancelled"
                    /\ events[p][i].payload.reason = "user_request"})

\* lines 104-118 and 122
cancel_run(r) ==
    /\ current = Idle
    /\ current' = CancelOf(r)
    /\ IF r \notin 1..Len(runs)
          THEN /\ cancelCall' = [run_id |-> r, pc |-> "return", ret |-> <<>>]
               /\ UNCHANGED <<runs, task, lock>>
          ELSE IF TaskActive(r)
                  THEN /\ ActiveCancels(ProjectOf(r)) < MaxCancels
                       /\ task' = [task EXCEPT ![r] = TaskCancel(@)]
                       /\ lock[ProjectOf(r)] = Free
                       /\ lock' = [lock EXCEPT ![ProjectOf(r)] = CancelOf(r)]
                       /\ runs' = update_run(runs, r, [status |-> "cancelled", finished |-> TRUE])
                       /\ cancelCall' = [run_id |-> r, pc |-> "L119", ret |-> <<>>]
                  ELSE /\ cancelCall' = [run_id |-> r, pc |-> "return", ret |-> <<runs[r]>>]
                       /\ UNCHANGED <<runs, task, lock>>
    /\ UNCHANGED <<steps, events, messages, _tasks, thread, logged, subsystems>>

\* lines 119-120
C119(r) ==
    /\ current = CancelOf(r)
    /\ cancelCall.pc = "L119"
    /\ events' = [events EXCEPT ![ProjectOf(r)] =
          add_event(@, "run_cancelled", r, [reason |-> "user_request"])]
    /\ lock[ProjectOf(r)] = CancelOf(r)
    /\ lock' = [lock EXCEPT ![ProjectOf(r)] = Free]
    /\ cancelCall' = [run_id |-> r, pc |-> "return", ret |-> <<runs[r]>>]
    /\ UNCHANGED <<runs, steps, messages, _tasks, task, thread, current, logged, subsystems>>

\* the call returns `ret` to its caller and the handler leaves the loop
CancelReturn(r) ==
    /\ current = CancelOf(r)
    /\ cancelCall.pc = "return"
    /\ cancelCall' = NoCall
    /\ current' = Idle
    /\ UNCHANGED <<runs, steps, events, messages, lock, _tasks, task, thread, logged, subsystems>>

\* ------------------------------------------------------------------ specification
Outcomes == [kind : {"result"}, exit_code : ExitCodes] \cup {[kind |-> "error", exit_code |-> 0]}

Next ==
    \/ \E p \in Projects, m \in TriggerIds : start_run(p, m)
    \/ \E r \in RunIds : cancel_run(r)
    \/ \E r \in RunIds : C119(r)
    \/ \E r \in RunIds : CancelReturn(r)
    \/ \E r \in RunIds : FirstStep(r)
    \/ \E r \in RunIds : L131(r)
    \/ \E r \in RunIds : L133(r)
    \/ \E r \in RunIds : L135(r)
    \/ \E r \in RunIds : L140(r)
    \/ \E r \in RunIds : L143(r)
    \/ \E r \in RunIds : L144(r)
    \/ \E r \in RunIds : L153(r)
    \/ \E r \in RunIds : L164(r)
    \/ \E r \in RunIds : L183(r)
    \/ \E r \in RunIds : L195(r)
    \/ \E r \in RunIds : L203(r)
    \/ \E r \in RunIds, o \in Outcomes : ExecReturn(r, o)
    \/ \E r \in RunIds : Wakeup(r)
    \/ \E r \in RunIds : L217(r)
    \/ \E r \in RunIds : L231(r)
    \/ \E r \in RunIds : L237(r)
    \/ \E r \in RunIds : L257(r)
    \/ \E r \in RunIds : L260(r)
    \/ \E r \in RunIds : L272(r)
    \/ \E r \in RunIds : L281(r)
    \/ \E r \in RunIds : L288(r)
    \/ \E r \in RunIds : L296(r)
    \/ \E r \in RunIds : L317(r)
    \/ \E r \in RunIds : L319(r)
    \/ \E r \in RunIds : L327(r)
    \/ \E r \in RunIds : L335(r)
    \/ \E r \in RunIds : L342(r)

Spec == Init /\ [][Next]_vars

\* Scheduling: the loop runs every ready callback, so a task that can be
\* stepped again and again is stepped, a command handed to a worker thread
\* returns, and a cancel_run call that has started runs to its return.
LoopStep(r) ==
    \/ FirstStep(r) \/ L131(r) \/ L133(r) \/ L135(r) \/ L140(r) \/ L143(r) \/ L144(r)
    \/ L153(r) \/ L164(r) \/ L183(r) \/ L195(r) \/ L203(r) \/ Wakeup(r) \/ L217(r)
    \/ L231(r) \/ L237(r) \/ L257(r) \/ L260(r) \/ L272(r) \/ L281(r) \/ L288(r)
    \/ L296(r) \/ L317(r) \/ L319(r) \/ L327(r) \/ L335(r) \/ L342(r)

TaskStep(r) == LoopStep(r) \/ \E o \in Outcomes : ExecReturn(r, o)

FairSpec ==
    Spec /\ \A r \in RunIds : SF_vars(TaskStep(r)) /\ WF_vars(C119(r) \/ CancelReturn(r))

\* A hung external command: the commands of the runs in Hung never return
\* (codex.execute imposes no timeout, line 203), every other command does.
\* Runs are started in either project.
Hung == {1}

HungNext ==
    \/ \E p \in AllProjects, m \in TriggerIds : start_run(p, m)
    \/ \E r \in RunIds : cancel_run(r)
    \/ \E r \in RunIds : C119(r)
    \/ \E r \in RunIds : CancelReturn(r)
    \/ \E r \in RunIds : FirstStep(r)
    \/ \E r \in RunIds : L131(r)
    \/ \E r \in RunIds : L133(r)
    \/ \E r \in RunIds : L135(r)
    \/ \E r \in RunIds : L140(r)
    \/ \E r \in RunIds : L143(r)
    \/ \E r \in RunIds : L144(r)
    \/ \E r \in RunIds : L153(r)
    \/ \E r \in RunIds : L164(r)
    \/ \E r \in RunIds : L183(r)
    \/ \E r \in RunIds : L195(r)
    \/ \E r \in RunIds : L203(r)
    \/ \E r \in RunIds \ Hung, o \in Outcomes : ExecReturn(r, o)
    \/ \E r \in RunIds : Wakeup(r)
    \/ \E r \in RunIds : L217(r)
    \/ \E r \in RunIds : L231(r)
    \/ \E r \in RunIds : L237(r)
    \/ \E r \in RunIds : L257(r)
    \/ \E r \in RunIds : L260(r)
    \/ \E r \in RunIds : L272(r)
    \/ \E r \in RunIds : L281(r)
    \/ \E r \in RunIds : L288(r)
    \/ \E r \in RunIds : L296(r)
    \/ \E r \in RunIds : L317(r)
    \/ \E r \in RunIds : L319(r)
    \/ \E r \in RunIds : L327(r)
    \/ \E r \in RunIds : L335(r)
    \/ \E r \in RunIds : L342(r)

HungSpec ==
    /\ Init /\ [][HungNext]_vars
    /\ \A r \in RunIds : SF_vars(LoopStep(r)) /\ WF_vars(C119(r) \/ CancelReturn(r))
    /\ \A r \in RunIds \ Hung : SF_vars(\E o \in Outcomes : ExecReturn(r, o))

\* ------------------------------------------------------------------ observations
Runs == 1..Len(runs)
Terminal == {"done", "failed", "cancelled"}
EventLog(r) == events[ProjectOf(r)]
EventsOf(r, type) == {i \in 1..Len(EventLog(r)) : EventLog(r)[i].run_id = r /\ EventLog(r)[i].type = type}
Count(r, type) == Cardinality(EventsOf(r, type))
TerminalEvents(r) == Count(r, "run_completed") + Count(r, "run_failed") + Count(r, "run_cancelled")
\* cancel_run found the task of r active: only that branch writes reason user_request
UserCancelled(r) == \E i \in EventsOf(r, "run_cancelled") : EventLog(r)[i].payload.reason = "user_request"
StepsOf(r) == SelectSeq(steps[ProjectOf(r)], LAMBDA st : st.run_id = r)
StepFailed(st) == st.error # "" \/ (st.status # "running" /\ st.exit_code # 0)
FailedSteps(r) == Cardinality({i \in 1..Len(StepsOf(r)) : StepFailed(StepsOf(r)[i])})
TriggerMissing(r) ==
    ~get_message(messages[ProjectOf(r)], runs[r].conversation_id, runs[r].trigger_message_id)
Crashed(r) == runs[r].output_summary = "Run crashed"

\* ------------------------------------------------------------------ claims
\* C1: whenever cancel_run found the task of a run active (not yet stepped, or
\* suspended on a command), then once the task has ended the run is cancelled
\* and finished, and the log holds exactly one run_cancelled event for it.
C1_CancelActiveOneEvent ==
    \A r \in Runs :
        (UserCancelled(r) /\ TaskDone(r)) =>
            /\ runs[r].status = "cancelled"
            /\ runs[r].finished
            /\ Count(r, "run_cancelled") = 1

\* C2: a run whose status is done, failed or cancelled keeps that status in
\* every later step, whoever takes it (its own task, cancel_run, another run).
C2_TerminalStatusFrozen ==
    [][\A r \in Runs : runs[r].status \in Terminal => runs'[r].status = runs[r].status]_vars

\* a cancelled run whose task wrote the status again in its CancelledError
\* handler, and another run that went on writing after that
C2_Witness ==
    \E r \in Runs, q \in Runs :
        /\ q # r
        /\ runs[r].status = "cancelled"
        /\ task[r].pc = "cancelled"
        /\ Count(r, "run_cancelled") = 2
        /\ runs[q].status = "done"
        /\ \E i \in EventsOf(r, "run_cancelled"), j \in EventsOf(q, "run_completed") : i < j

StatusEdges ==
    {<<"pending", "running">>, <<"running", "done">>, <<"running", "failed">>,
     <<"running", "cancelled">>}

\* C3 as stated: a run is created pending, its status moves only along
\* pending -> running -> {done, failed, cancelled}, and a run in a terminal
\* status has its run_started event.
C3_Original ==
    [][\A r \in 1..Len(runs') :
          IF r \notin Runs THEN runs'[r].status = "pending"
          ELSE /\ \/ runs'[r].status = runs[r].status
                  \/ <<runs[r].status, runs'[r].status>> \in StatusEdges
               /\ runs'[r].status \in Terminal => Count(r, "run_started")' = 1]_vars

\* C3 amended: a run is created pending, its status moves only along
\* pending -> running, pending -> cancelled (cancel_run before the first step
\* of the task) and running -> {done, failed, cancelled}; a run that is done
\* or failed has its run_started event, and so has every run that left pending
\* for running.
C3_Transitions ==
    [][\A r \in 1..Len(runs') :
          IF r \notin Runs THEN runs'[r].status = "pending"
          ELSE /\ \/ runs'[r].status = runs[r].status
                  \/ <<runs[r].status, runs'[r].status>> \in
                        StatusEdges \cup {<<"pending", "cancelled">>}
               /\ runs'[r].status \in {"done", "failed"} => Count(r, "run_started")' = 1
               /\ (runs[r].status = "running" /\ runs'[r].status = "cancelled")
                     => Count(r, "run_started")' = 1]_vars

\* one run cancelled out of pending, without run_started, and one that went
\* the whole way pending -> running -> done
C3_Witness ==
    \E r \in Runs, q \in Runs :
        /\ runs[r].status = "cancelled" /\ Count(r, "run_started") = 0 /\ TaskDone(r)
        /\ runs[q].status = "done" /\ Count(q, "run_started") = 1

\* C4: once the task of a run has ended the run is in a terminal status and
\* the log holds exactly one terminal event (run_completed, run_failed or
\* run_cancelled) for it.
C4_OneTerminalEvent ==
    \A r \in Runs :
        /\ TaskDone(r) => (runs[r].status \in Terminal /\ TerminalEvents(r) = 1)
        /\ task[r].pc = "start" /\ ~task[r].must_cancel => runs[r].status \notin Terminal

\* C5: after the task of a run has ended, _tasks holds no entry for the run.
C5_NoTaskLeak == \A r \in Runs : TaskDone(r) => r \notin _tasks

\* C6: a cancel_run call for a run whose task is not tracked or is done leaves
\* the run, the event log, the tasks and every table as they are and returns
\* the stored run.
C6_CancelInactiveNoOp ==
    [][\A r \in Runs :
          (current = Idle /\ current' = CancelOf(r) /\ (r \notin _tasks \/ TaskDone(r))) =>
              /\ UNCHANGED <<runs, events, steps, messages, task, _tasks, lock, thread>>
              /\ cancelCall'.pc = "return"
              /\ cancelCall'.ret = <<runs[r]>>]_vars

\* cancel_run on a run that is done returns it; on a run whose task ended but
\* stayed tracked it does too
C6_Witness ==
    \E r \in Runs :
        /\ current = CancelOf(r)
        /\ cancelCall = [run_id |-> r, pc |-> "return", ret |-> <<runs[r]>>]
        /\ TaskDone(r)
        /\ runs[r].status = "done"
        /\ Count(r, "run_cancelled") = 0

\* C7: a run that ended without cancellation and without crash, with n planned
\* commands of which f failed (nonzero exit code or execution error): failed,
\* "<n> step(s), <f> failed" and one run_failed event iff f > 0; done,
\* "<n> step(s) executed" and one run_completed event iff f = 0; n
\* run_step_completed events and one message_finalized event either way.
C7_StepTally ==
    \A r \in Runs :
        (TaskDone(r) /\ runs[r].status # "cancelled" /\ ~Crashed(r)) =>
            LET n == task[r].plan.commands
                f == FailedSteps(r)
            IN /\ Count(r, "run_step_completed") = n
               /\ Count(r, "message_finalized") = 1
               /\ runs[r].finished
               /\ f > 0 <=> runs[r].status = "failed"
               /\ f = 0 <=> runs[r].status = "done"
               /\ f > 0 =>
                     /\ runs[r].output_summary =
                           ToString(n) \o " step(s), " \o ToString(f) \o " failed"
                     /\ Count(r, "run_failed") = 1 /\ Count(r, "run_completed") = 0
               /\ f = 0 =>
                     /\ runs[r].output_summary = ToString(n) \o " step(s) executed"
                     /\ Count(r, "run_completed") = 1 /\ Count(r, "run_failed") = 0

\* two planned commands, the first exits 0 and the second exits 1
C7_Witness ==
    \E r \in Runs :
        /\ TaskDone(r)
        /\ Len(StepsOf(r)) = 2
        /\ StepsOf(r)[1].exit_code = 0 /\ StepsOf(r)[1].status = "completed"
        /\ StepsOf(r)[2].exit_code = 1 /\ StepsOf(r)[2].status = "failed"
        /\ runs[r].status = "failed"
        /\ runs[r].output_summary = "2 step(s), 1 failed"
        /\ Count(r, "run_step_completed") = 2
        /\ Count(r, "message_finalized") = 1
        /\ Count(r, "run_failed") = 1

\* C8: a run with n planned commands that ended without cancellation has one
\* RunStep per command, with step_index 1..n in creation order, whatever the
\* outcome of each step.
C8_EveryCommandGetsAStep ==
    \A r \in Runs :
        (TaskDone(r) /\ runs[r].status # "cancelled" /\ Count(r, "run_planned") = 1) =>
            /\ Len(StepsOf(r)) = task[r].plan.commands
            /\ \A i \in 1..Len(StepsOf(r)) : StepsOf(r)[i].step_index = i

\* the first of two commands could not be executed and the second still ran
C8_Witness ==
    \E r \in Runs :
        /\ TaskDone(r)
        /\ task[r].plan.commands = 2
        /\ Len(StepsOf(r)) = 2
        /\ StepsOf(r)[1].status = "failed" /\ StepsOf(r)[1].error # ""
        /\ StepsOf(r)[2].step_index = 2 /\ StepsOf(r)[2].status = "completed"

\* what C9 says of every run whose trigger message is missing, beyond its status
NoSagaProgress(r) ==
    /\ StepsOf(r) = <<>>
    /\ ~task[r].plan.called
    /\ Count(r, "run_planned") = 0
    /\ Count(r, "message_finalized") = 0

\* C9 as stated: a run whose trigger message does not exist ends failed,
\* finished, "Run crashed", with an error; no RunStep, no planner call, no
\* run_planned or message_finalized event.
C9_Original ==
    \A r \in Runs :
        (TriggerMissing(r) /\ TaskDone(r)) =>
            /\ runs[r].status = "failed" /\ runs[r].finished
            /\ runs[r].output_summary = "Run crashed" /\ runs[r].error # ""
            /\ NoSagaProgress(r)

\* C9 amended: a run whose trigger message does not exist has no RunStep, no
\* planner call and no run_planned or message_finalized event at any time; when
\* its task has ended it is failed, finished, "Run crashed", with an error,
\* unless cancel_run cancelled it before the first step of its task, and then
\* it is cancelled and finished.
C9_MissingTrigger ==
    \A r \in Runs :
        TriggerMissing(r) =>
            /\ NoSagaProgress(r)
            /\ TaskDone(r) =>
                  IF UserCancelled(r)
                     THEN runs[r].status = "cancelled" /\ runs[r].finished
                     ELSE /\ runs[r].status = "failed" /\ runs[r].finished
                          /\ runs[r].output_summary = "Run crashed"
                          /\ runs[r].error # ""

C9_Witness ==
    \E r \in Runs :
        /\ TriggerMissing(r)
        /\ task[r].pc = "finished"
        /\ runs[r].status = "failed"
        /\ runs[r].output_summary = "Run crashed"
        /\ runs[r].error = "Trigger message not found"
        /\ Count(r, "run_failed") = 1

\* two runs that took the same course after RAG preparation
StepOutcomes(r) == [i \in 1..Len(StepsOf(r)) |->
                    <<StepsOf(r)[i].status, StepsOf(r)[i].exit_code, StepsOf(r)[i].error>>]
SameCourse(a, b) ==
    /\ task[a].plan = task[b].plan
    /\ task[a].exc = task[b].exc
    /\ StepOutcomes(a) = StepOutcomes(b)
    /\ UserCancelled(a) = UserCancelled(b)

\* C10: a run whose rescan or index search failed goes on to the planner with
\* zero RAG hits, records zero hits in run_planned, and ends in the status,
\* summary and error of a run whose search returned no hits and that took the
\* same course afterwards.
C10_RagFailureDegrades ==
    \A r \in logged :
        /\ task[r].rag_hits = 0
        /\ task[r].pc # "L153" => task[r].plan.called
        /\ \A i \in EventsOf(r, "run_planned") : EventLog(r)[i].payload.rag_hit_count = 0
        /\ \A q \in Runs \ logged :
              (/\ TaskDone(r) /\ TaskDone(q)
               /\ task[q].rag_hits = 0
               /\ SameCourse(r, q)) =>
                  /\ runs[r].status = runs[q].status
                  /\ runs[r].finished = runs[q].finished
                  /\ runs[r].output_summary = runs[q].output_summary
                  /\ runs[r].error = runs[q].error

\* a run whose index failed and a run whose search found nothing, one command
\* each with exit code 1: both failed with the same summary
C10_Witness ==
    \E r \in logged, q \in Runs \ logged :
        /\ TaskDone(r) /\ TaskDone(q)
        /\ task[q].rag_hits = 0
        /\ SameCourse(r, q)
        /\ task[r].plan.commands = 1
        /\ runs[r].status = "failed"
        /\ runs[r].output_summary = "1 step(s), 1 failed"
        /\ runs[q].output_summary = "1 step(s), 1 failed"

\* ------------------------------------------------------------------ the project lock

\* positions of _execute_run inside a call to an external collaborator:
\* load_skill_bundle (140), scan_project_files (143), indexer.search (144),
\* planner.plan (153), codex.execute on its worker thread (203)
ExternalCall == {"L140", "L143", "L144", "L153", "await203"}

\* positions of _execute_run between the first and the last statement of a
\* `with context.lock:` block
InsideSection == {"L133", "L195", "L231", "L237", "L260", "L281", "L288", "L296",
                  "L319", "L335"}

\* C16: a run task inside a call to an external collaborator does not hold the
\* project lock; a task holds it only between the statements of one critical
\* section, which it runs through without giving up the event loop, and
\* cancel_run holds it only between its update_run and its add_event.
C16_NoLockAcrossExternalCall ==
    /\ \A r \in Runs :
          /\ task[r].pc \in ExternalCall => lock[ProjectOf(r)] # TaskOf(r)
          /\ lock[ProjectOf(r)] = TaskOf(r)
                => task[r].pc \in InsideSection /\ current = TaskOf(r)
          /\ lock[ProjectOf(r)] = CancelOf(r)
                => cancelCall.pc = "L119" /\ current = CancelOf(r)
    /\ \A p \in Projects :
          lock[p] # Free => \E r \in Runs : ProjectOf(r) = p /\ lock[p] \in {TaskOf(r), CancelOf(r)}

\* one run's command is executing on its worker thread while another run of
\* the same project is inside a critical section
C16_Witness ==
    \E r \in Runs, q \in Runs :
        /\ r # q
        /\ ProjectOf(r) = ProjectOf(q)
        /\ task[r].pc = "await203"
        /\ thread[r] = "busy"
        /\ lock[ProjectOf(q)] = TaskOf(q)

\* C18: whenever the project lock is not held, a run is marked finished
\* exactly when its status is done, failed or cancelled; a pending or running
\* run is never marked finished.
C18_FinishedIffTerminal ==
    \A r \in Runs :
        lock[ProjectOf(r)] = Free =>
            /\ runs[r].finished <=> runs[r].status \in Terminal
            /\ runs[r].status \in {"pending", "running"} => ~runs[r].finished

\* with the lock free: one run crashed and finished, another running and not
\* finished
C18_Witness ==
    \E r \in Runs, q \in Runs :
        /\ lock[ProjectOf(r)] = Free /\ lock[ProjectOf(q)] = Free
        /\ runs[r].status = "failed" /\ runs[r].output_summary = "Run crashed"
        /\ runs[r].finished
        /\ runs[q].status = "running" /\ ~runs[q].finished

\* ------------------------------------------------------------------ events

StepEvents(r, type, step_id) ==
    {i \in EventsOf(r, type) : EventLog(r)[i].payload.step_id = step_id}

StatusEvent(status) ==
    CASE status = "running" -> "run_started"
      [] status = "done" -> "run_completed"
      [] status = "failed" -> "run_failed"
      [] status = "cancelled" -> "run_cancelled"
      [] OTHER -> "none"

\* C20: whenever the project lock is not held, a running run has a
\* run_started event, a done run a run_completed event, a failed run a
\* run_failed event, a cancelled run a run_cancelled event, every created run
\* step a run_step_started event and every finalized run step a
\* run_step_completed event.
C20_TransitionsPairedWithEvents ==
    \A r \in Runs :
        lock[ProjectOf(r)] = Free =>
            /\ runs[r].status # "pending" => EventsOf(r, StatusEvent(runs[r].status)) # {}
            /\ \A i \in 1..Len(StepsOf(r)) :
                  LET s == StepsOf(r)[i] IN
                  /\ StepEvents(r, "run_step_started", s.id) # {}
                  /\ s.status # "running" => StepEvents(r, "run_step_completed", s.id) # {}

\* with the lock free: a done run with one finalized step and a second run
\* whose step is still running
C20_Witness ==
    \E r \in Runs, q \in Runs :
        /\ lock[ProjectOf(r)] = Free /\ lock[ProjectOf(q)] = Free
        /\ runs[r].status = "done"
        /\ \E i \in 1..Len(StepsOf(r)) : StepsOf(r)[i].status = "completed"
        /\ runs[q].status = "running"
        /\ \E i \in 1..Len(StepsOf(q)) : StepsOf(q)[i].status = "running"

\* ------------------------------------------------------------------ hung commands

\* C17: while the command of one run never returns, every other run, of the
\* same or of another project, reaches a terminal status, and every cancel_run
\* call that has started, on the hung run too, returns.
C17_HungCommandStallsOnlyItsRun ==
    /\ \A q \in RunIds \ Hung :
          (q \in Runs) ~> (q \in Runs /\ runs[q].status \in Terminal /\ TaskDone(q))
    /\ \A r \in RunIds :
          (current = CancelOf(r)) ~> (current = Idle /\ cancelCall = NoCall)

\* the hung run's command still occupies its worker thread after cancel_run
\* cancelled the run, and a run of the same project is done with a completed
\* step
C17_Witness ==
    \E h \in Hung \cap Runs, q \in Runs \ Hung :
        /\ ProjectOf(h) = ProjectOf(q)
        /\ thread[h] = "busy"
        /\ runs[h].status = "cancelled"
        /\ cancelCall = NoCall
        /\ runs[q].status = "done"
        /\ \E i \in 1..Len(StepsOf(q)) : StepsOf(q)[i].status = "completed"

\* the same with the second run in another project, the hung run still waiting
C17_WitnessOtherProject ==
    \E h \in Hung \cap Runs, q \in Runs \ Hung :
        /\ ProjectOf(h) # ProjectOf(q)
        /\ task[h].pc = "await203" /\ task[h].fut = "pending"
        /\ runs[q].status = "done"
        /\ \E i \in 1..Len(StepsOf(q)) : StepsOf(q)[i].status = "completed"

\* ------------------------------------------------------------------ concurrent create_message

\* Threads that call repo.create_message(conversation_id, role="user", ...) on
\* one project at the same time. Inside the call the sequence number is
\* computed by a read of the conversation's maximum followed by the insert of
\* maximum + 1, both inside one acquisition of the project lock.
WriterProject == "p1"

WriterCall(w, conversation_id) ==
    /\ writer[w].pc = "idle"
    /\ writer' = [writer EXCEPT ![w] = [pc |-> "lock", conversation_id |-> conversation_id,
                                        max_sequence |-> 0]]
    /\ UNCHANGED <<orchestratorVars, indexVars, convVars, storeVars>>

WriterAcquireNothing(w) ==
    /\ writer[w].pc = "lock"
    /\ writer' = [writer EXCEPT ![w].pc = "read"]
    /\ UNCHANGED <<orchestratorVars, indexVars, convVars, storeVars>>

WriterAcquire(w) ==
    /\ writer[w].pc = "lock"
    /\ lock[WriterProject] = Free
    /\ lock' = [lock EXCEPT ![WriterProject] = WriterOf(w)]
    /\ writer' = [writer EXCEPT ![w].pc = "read"]
    /\ UNCHANGED <<runs, steps, events, messages, _tasks, task, thread, current, cancelCall, logged, indexVars, convVars, storeVars>>

WriterRead(w) ==
    /\ writer[w].pc = "read"
    /\ writer' = [writer EXCEPT ![w].pc = "insert",
                                ![w].max_sequence = MaxSeq(messages[WriterProject],
                                                           writer[w].conversation_id)]
    /\ UNCHANGED <<orchestratorVars, indexVars, convVars, storeVars>>

WriterInsert(w) ==
    /\ writer[w].pc = "insert"
    /\ messages' = [messages EXCEPT ![WriterProject] =
          InsertMessage(@, writer[w].conversation_id, "user", 0, 0,
                        writer[w].max_sequence + 1)]
    /\ writer' = [writer EXCEPT ![w].pc = "release"]
    /\ UNCHANGED <<runs, steps, events, lock, _tasks, task, thread, current, cancelCall, logged, indexVars, convVars, storeVars>>

WriterRelease(w) ==
    /\ writer[w].pc = "release"
    /\ lock[WriterProject] = WriterOf(w)
    /\ lock' = [lock EXCEPT ![WriterProject] = Free]
    /\ writer' = [writer EXCEPT ![w].pc = "done"]
    /\ UNCHANGED <<runs, steps, events, messages, _tasks, task, thread, current, cancelCall, logged, indexVars, convVars, storeVars>>

MessagesNext ==
    \/ \E w \in Writers, c \in Conversations : WriterCall(w, c)
    \/ \E w \in Writers : WriterAcquire(w)
    \/ \E w \in Writers : WriterRead(w)
    \/ \E w \in Writers : WriterInsert(w)
    \/ \E w \in Writers : WriterRelease(w)

MessagesSpec == Init /\ [][MessagesNext]_vars

MessagesOf(p, c) == SelectSeq(messages[p], LAMBDA m : m.conversation_id = c)

\* C11: however the callers of create_message interleave, the k messages of a
\* conversation carry the sequence numbers 1..k, each once, in the order in
\* which they were committed.
C11_SequenceNumbers ==
    \A p \in AllProjects, c \in Conversations :
        \A i \in 1..Len(MessagesOf(p, c)) : MessagesOf(p, c)[i].sequence_no = i

\* three callers on one conversation at once: one has committed, one holds
\* the lock between its read and its insert, one waits for the lock
C11_Witness ==
    \E a \in Writers, b \in Writers, c \in Writers :
        /\ writer[a].pc = "done" /\ writer[b].pc = "insert" /\ writer[c].pc = "lock"
        /\ writer[a].conversation_id = writer[b].conversation_id
        /\ writer[b].conversation_id = writer[c].conversation_id
        /\ Len(MessagesOf(WriterProject, writer[a].conversation_id)) >= 2
        /\ a > b

\* ------------------------------------------------------------------ concurrent index_asset

\* IndexingService._chunk_text: a sliding window of ChunkSize characters
\* that advances by ChunkSize - ChunkOverlap until a window reaches the end
\* of the text; the result is the sequence of [start, end) slices
_chunk_text(length) ==
    LET step == ChunkSize - ChunkOverlap
        last == CHOOSE n \in 0..length : /\ n * step + ChunkSize >= length
                                          /\ \A m \in 0..(n - 1) : m * step + ChunkSize < length
    IN [i \in 1..(last + 1) |->
           [start |-> (i - 1) * step,
            end |-> IF (i - 1) * step + ChunkSize < length THEN (i - 1) * step + ChunkSize
                    ELSE length]]

IndexProject == "p1"

MaxId(tbl) ==
    LET S == {tbl[i].id : i \in 1..Len(tbl)}
    IN IF S = {} THEN 0 ELSE CHOOSE m \in S : \A x \in S : x <= m

\* repo.create_or_update_asset for a new file: the asset has no rows yet
create_or_update_asset(length) ==
    /\ Len(assets) < MaxAssets
    /\ assets' = Append(assets, [id |-> Len(assets) + 1, content |-> length, indexed |-> FALSE])
    /\ reply' = NoReply
    /\ UNCHANGED <<orchestratorVars, writer, chunks, embeddings, indexing, repo, storeVars>>

\* a thread calls indexer.index_asset(context, repo, asset_id)
IndexCall(t, asset_id) ==
    /\ indexing[t].pc = "idle"
    /\ indexing[t].calls < MaxRounds
    /\ asset_id \in 1..Len(assets)
    /\ indexing' = [indexing EXCEPT ![t].pc = "lock", ![t].asset_id = asset_id,
                                    ![t].chunk_ids = <<>>]
    /\ UNCHANGED <<orchestratorVars, writer, assets, chunks, embeddings, convVars, storeVars>>

IndexAcquireNothing(t) ==
    /\ indexing[t].pc = "lock"
    /\ indexing' = [indexing EXCEPT ![t].pc = "delete"]
    /\ UNCHANGED <<orchestratorVars, writer, assets, chunks, embeddings, convVars, storeVars>>

IndexAcquire(t) ==
    /\ indexing[t].pc = "lock"
    /\ lock[IndexProject] = Free
    /\ lock' = [lock EXCEPT ![IndexProject] = IndexerOf(t)]
    /\ indexing' = [indexing EXCEPT ![t].pc = "delete"]
    /\ UNCHANGED <<runs, steps, events, messages, _tasks, task, thread, current, cancelCall,
                   logged, writer, assets, chunks, embeddings, convVars, storeVars>>

\* the asset's old rows go
IndexDelete(t) ==
    /\ indexing[t].pc = "delete"
    /\ chunks' = SelectSeq(chunks, LAMBDA c : c.asset_id # indexing[t].asset_id)
    /\ embeddings' = SelectSeq(embeddings, LAMBDA e : e.asset_id # indexing[t].asset_id)
    /\ indexing' = [indexing EXCEPT ![t].pc = "chunks"]
    /\ UNCHANGED <<orchestratorVars, writer, assets, convVars, storeVars>>

\* one chunk row for each slice of the current content
IndexInsertChunks(t) ==
    /\ indexing[t].pc = "chunks"
    /\ LET slices == _chunk_text(assets[indexing[t].asset_id].content)
           rows == [i \in 1..Len(slices) |->
                      [id |-> MaxId(chunks) + i, asset_id |-> indexing[t].asset_id,
                       position |-> i, start |-> slices[i].start, end |-> slices[i].end]]
       IN /\ chunks' = chunks \o rows
          /\ indexing' = [indexing EXCEPT ![t].pc = "embeddings",
                                          ![t].chunk_ids = [i \in 1..Len(rows) |-> rows[i].id]]
    /\ UNCHANGED <<orchestratorVars, writer, assets, embeddings, convVars, storeVars>>

\* one embedding row for each chunk row just written
IndexInsertEmbeddings(t) ==
    /\ indexing[t].pc = "embeddings"
    /\ embeddings' = embeddings \o
          [i \in 1..Len(indexing[t].chunk_ids) |->
              [id |-> MaxId(embeddings) + i, asset_id |-> indexing[t].asset_id,
               chunk_id |-> indexing[t].chunk_ids[i]]]
    /\ assets' = [assets EXCEPT ![indexing[t].asset_id].indexed = TRUE]
    /\ indexing' = [indexing EXCEPT ![t].pc = "release"]
    /\ UNCHANGED <<orchestratorVars, writer, chunks, convVars, storeVars>>

IndexRelease(t) ==
    /\ indexing[t].pc = "release"
    /\ lock[IndexProject] = IndexerOf(t)
    /\ lock' = [lock EXCEPT ![IndexProject] = Free]
    /\ indexing' = [indexing EXCEPT ![t].pc = "idle", ![t].calls = @ + 1]
    /\ UNCHANGED <<runs, steps, events, messages, _tasks, task, thread, current, cancelCall,
                   logged, writer, assets, chunks, embeddings, convVars, storeVars>>

IndexNext ==
    \/ \E length \in TextLengths : create_or_update_asset(length)
    \/ \E t \in Indexers, a \in 1..MaxAssets : IndexCall(t, a)
    \/ \E t \in Indexers : IndexAcquire(t)
    \/ \E t \in Indexers : IndexDelete(t)
    \/ \E t \in Indexers : IndexInsertChunks(t)
    \/ \E t \in Indexers : IndexInsertEmbeddings(t)
    \/ \E t \in Indexers : IndexRelease(t)

IndexSpec == Init /\ [][IndexNext]_vars

ChunksOf(a) == SelectSeq(chunks, LAMBDA c : c.asset_id = a)
EmbeddingsOf(a) == SelectSeq(embeddings, LAMBDA e : e.asset_id = a)

ConversationIds == {"conv_1", "conv_2"}
DeleteIds == ConversationIds \cup {"conv_missing"}

NextId(tbl) ==
    LET S == {row.id : row \in tbl}
    IN IF S = {} THEN 1 ELSE 1 + CHOOSE m \in S : \A x \in S : x <= m

Called(op, id, ret) == [op |-> op, id |-> id, ret |-> ret, before |-> repo, assets |-> assets]

create_conversation(id) ==
    /\ id \notin repo.created
    /\ repo' = [repo EXCEPT !.conversations = @ \cup {id}, !.created = @ \cup {id}]
    /\ reply' = NoReply
    /\ UNCHANGED <<orchestratorVars, writer, indexVars, storeVars>>

\* update_project(active_conversation_id=...)
update_project(id) ==
    /\ id \in repo.conversations
    /\ repo.active_conversation_id # id
    /\ repo' = [repo EXCEPT !.active_conversation_id = id]
    /\ reply' = NoReply
    /\ UNCHANGED <<orchestratorVars, writer, indexVars, storeVars>>

\* create_message(conversation_id, ...)
CreateMessageIn(id) ==
    /\ id \in repo.conversations
    /\ Cardinality(repo.messages) < MaxMessageRows
    /\ repo' = [repo EXCEPT !.messages = @ \cup {[id |-> NextId(@), conversation_id |-> id]}]
    /\ reply' = NoReply
    /\ UNCHANGED <<orchestratorVars, writer, indexVars, storeVars>>

create_message_attachment(message_id, asset_id) ==
    /\ \E m \in repo.messages : m.id = message_id
    /\ asset_id \in 1..Len(assets)
    /\ [message_id |-> message_id, asset_id |-> asset_id] \notin repo.attachments
    /\ repo' = [repo EXCEPT !.attachments = @ \cup {[message_id |-> message_id, asset_id |-> asset_id]}]
    /\ reply' = NoReply
    /\ UNCHANGED <<orchestratorVars, writer, indexVars, storeVars>>

\* create_run(conversation_id, ...)
CreateRunIn(id) ==
    /\ id \in repo.conversations
    /\ Cardinality(repo.runs) < MaxRunRows
    /\ repo' = [repo EXCEPT !.runs = @ \cup {[id |-> NextId(@), conversation_id |-> id]}]
    /\ reply' = NoReply
    /\ UNCHANGED <<orchestratorVars, writer, indexVars, storeVars>>

\* create_run_step(run_id, ...): one step per run here
CreateRunStepOf(run_id) ==
    /\ \E r \in repo.runs : r.id = run_id
    /\ \A st \in repo.run_steps : st.run_id # run_id
    /\ repo' = [repo EXCEPT !.run_steps = @ \cup {[id |-> NextId(@), run_id |-> run_id]}]
    /\ reply' = NoReply
    /\ UNCHANGED <<orchestratorVars, writer, indexVars, storeVars>>

upsert_run_change_set(run_id) ==
    /\ \E r \in repo.runs : r.id = run_id
    /\ [run_id |-> run_id] \notin repo.change_sets
    /\ repo' = [repo EXCEPT !.change_sets = @ \cup {[run_id |-> run_id]}]
    /\ reply' = NoReply
    /\ UNCHANGED <<orchestratorVars, writer, indexVars, storeVars>>

\* add_event(type, conversation_id=..., run_id=...): an event names a
\* conversation, a run (0 for none) or both
AddEventFor(id, run_id) ==
    /\ id \in repo.conversations \cup {None}
    /\ run_id = 0 \/ \E r \in repo.runs : r.id = run_id /\ id \in {None, r.conversation_id}
    /\ id # None \/ run_id # 0
    /\ Cardinality(repo.events) < MaxEventRows
    /\ repo' = [repo EXCEPT !.events = @ \cup
          {[id |-> NextId(@), conversation_id |-> id, run_id |-> run_id]}]
    /\ reply' = NoReply
    /\ UNCHANGED <<orchestratorVars, writer, indexVars, storeVars>>

RunIdsOf(db, id) == {r.id : r \in {x \in db.runs : x.conversation_id = id}}
MessageIdsOf(db, id) == {m.id : m \in {x \in db.messages : x.conversation_id = id}}

\* the cascade of delete_conversation that keeps events found by run id only
CascadeKeepingRunEvents(db, id) ==
    [db EXCEPT
        !.conversations = @ \ {id},
        !.messages = {m \in @ : m.conversation_id # id},
        !.attachments = {a \in @ : a.message_id \notin MessageIdsOf(db, id)},
        !.runs = {r \in @ : r.conversation_id # id},
        !.run_steps = {st \in @ : st.run_id \notin RunIdsOf(db, id)},
        !.change_sets = {cs \in @ : cs.run_id \notin RunIdsOf(db, id)},
        !.events = {e \in @ : e.conversation_id # id}]

\* the cascade of delete_conversation: the conversation, its messages and
\* their attachments, its runs and their steps and change-sets, and the events
\* that name the conversation or one of its runs
Cascade(db, id) ==
    [db EXCEPT
        !.conversations = @ \ {id},
        !.messages = {m \in @ : m.conversation_id # id},
        !.attachments = {a \in @ : a.message_id \notin MessageIdsOf(db, id)},
        !.runs = {r \in @ : r.conversation_id # id},
        !.run_steps = {st \in @ : st.run_id \notin RunIdsOf(db, id)},
        !.change_sets = {cs \in @ : cs.run_id \notin RunIdsOf(db, id)},
        !.events = {e \in @ : e.conversation_id # id /\ e.run_id \notin RunIdsOf(db, id)}]

ActiveAfterDeleteKept(db, id) == {db.active_conversation_id}

\* the active conversation after delete_conversation(id): unchanged when
\* another one was active, else another existing conversation, else none
ActiveAfterDelete(db, id) ==
    IF db.active_conversation_id # id THEN {db.active_conversation_id}
    ELSE IF db.conversations \ {id} # {} THEN db.conversations \ {id}
    ELSE {None}

DeleteMissingClearsActive(db, id) == [db EXCEPT !.active_conversation_id = None]

\* delete_conversation(id) when no such conversation exists
DeleteMissing(db, id) == db

project_view == [active_conversation_id |-> repo.active_conversation_id]

delete_conversation(id) ==
    /\ IF id \notin repo.conversations
          THEN /\ repo' = DeleteMissing(repo, id)
               /\ reply' = Called("delete_conversation", id, <<>>)
          ELSE \E active \in ActiveAfterDelete(repo, id) :
               /\ repo' = [Cascade(repo, id) EXCEPT !.active_conversation_id = active]
               /\ reply' = Called("delete_conversation", id,
                                  <<[conversation_id |-> id, active_conversation_id |-> active]>>)
    /\ UNCHANGED <<orchestratorVars, writer, indexVars, storeVars>>

ConversationsNext ==
    \/ \E id \in ConversationIds : create_conversation(id)
    \/ \E id \in ConversationIds : update_project(id)
    \/ \E id \in ConversationIds : CreateMessageIn(id)
    \/ create_or_update_asset(MaxText)
    \/ \E m \in 1..MaxMessageRows, a \in 1..MaxAssets : create_message_attachment(m, a)
    \/ \E id \in ConversationIds : CreateRunIn(id)
    \/ \E r \in 1..MaxRunRows : CreateRunStepOf(r)
    \/ \E r \in 1..MaxRunRows : upsert_run_change_set(r)
    \/ \E id \in ConversationIds \cup {None}, r \in 0..MaxRunRows : AddEventFor(id, r)
    \/ \E id \in DeleteIds : delete_conversation(id)

ConversationsSpec == Init /\ [][ConversationsNext]_vars

Deleted == reply.op = "delete_conversation" /\ reply.ret # <<>>
DeleteRefused == reply.op = "delete_conversation" /\ reply.ret = <<>>

\* C13: after delete_conversation on an existing conversation no message,
\* attachment, run, run step, change-set or event of that conversation (by
\* its id or by the id of one of its runs) remains, and the records of the
\* other conversations and all assets are as before.
C13_DeleteCascade ==
    Deleted =>
        LET id == reply.id
            old == reply.before
            gone == RunIdsOf(old, id)
            msgs == MessageIdsOf(old, id)
        IN /\ id \notin repo.conversations
           /\ repo.conversations = old.conversations \ {id}
           /\ repo.messages = {m \in old.messages : m.conversation_id # id}
           /\ repo.attachments = {a \in old.attachments : a.message_id \notin msgs}
           /\ repo.runs = {r \in old.runs : r.conversation_id # id}
           /\ repo.run_steps = {st \in old.run_steps : st.run_id \notin gone}
           /\ repo.change_sets = {cs \in old.change_sets : cs.run_id \notin gone}
           /\ repo.events = {e \in old.events : e.conversation_id # id /\ e.run_id \notin gone}
           /\ assets = reply.assets

\* the deleted conversation had a message with an attachment, a run with a
\* step and a change-set, and an event that names only the run; a message of
\* another conversation is still there
C13_Witness ==
    /\ Deleted
    /\ LET id == reply.id
           old == reply.before
       IN /\ \E a \in old.attachments : a.message_id \in MessageIdsOf(old, id)
          /\ \E st \in old.run_steps : st.run_id \in RunIdsOf(old, id)
          /\ \E cs \in old.change_sets : cs.run_id \in RunIdsOf(old, id)
          /\ \E e \in old.events : e.conversation_id = None /\ e.run_id \in RunIdsOf(old, id)
          /\ \E m \in repo.messages : m.conversation_id # id
          /\ Len(assets) > 0

\* C14: the active conversation is none or an existing conversation;
\* deleting the active conversation makes another existing conversation
\* active when there is one and none otherwise, deleting another one leaves
\* it, and delete_conversation returns the active conversation that
\* project_view reports.
C14_ActiveConversation ==
    /\ repo.active_conversation_id \in repo.conversations \cup {None}
    /\ Deleted =>
          /\ reply.ret[1].conversation_id = reply.id
          /\ reply.ret[1].active_conversation_id = project_view.active_conversation_id
          /\ IF reply.before.active_conversation_id # reply.id
                THEN repo.active_conversation_id = reply.before.active_conversation_id
                ELSE IF repo.conversations # {}
                        THEN repo.active_conversation_id \in repo.conversations
                        ELSE repo.active_conversation_id = None

\* the active conversation was deleted while another one existed: that one
\* is active now
C14_Witness ==
    /\ Deleted
    /\ reply.before.active_conversation_id = reply.id
    /\ repo.conversations # {}
    /\ repo.active_conversation_id \in repo.conversations
    /\ reply.ret[1].active_conversation_id = repo.active_conversation_id

\* C15: delete_conversation on an id that names no conversation returns None
\* and leaves conversations, messages, attachments, runs, run steps, events,
\* change-sets, assets and the active conversation as they were.
C15_DeleteMissing ==
    /\ reply.op = "delete_conversation" /\ reply.id \notin reply.before.conversations
          => reply.ret = <<>>
    /\ DeleteRefused => repo = reply.before /\ assets = reply.assets

\* delete_conversation("conv_missing") on a store with an active
\* conversation, a message, a run and an event
C15_Witness ==
    /\ DeleteRefused
    /\ reply.id = "conv_missing"
    /\ repo.active_conversation_id # None
    /\ repo.messages # {} /\ repo.runs # {} /\ repo.events # {}

\* ------------------------------------------------------------------ project store and restart

list_projects == project_store

Loaded(root) == \E p \in project_store : p.root_path = root

\* what open_or_create(name, root_path) leaves loaded and on disk: a root
\* that is loaded stays as it is, a root with a store is opened under the id
\* kept there, any other root gets a new store with a new id
Opened(root) ==
    IF Loaded(root) THEN [store |-> project_store, disk |-> disk, minted |-> service.minted]
    ELSE IF disk[root] # 0
            THEN [store |-> project_store \cup {[project_id |-> disk[root], root_path |-> root]},
                  disk |-> disk, minted |-> service.minted]
            ELSE [store |-> project_store \cup
                              {[project_id |-> service.minted + 1, root_path |-> root]},
                  disk |-> [disk EXCEPT ![root] = service.minted + 1],
                  minted |-> service.minted + 1]

Serving == service.phase \in {"up", "restored"}

open_or_create(root) ==
    /\ Serving
    /\ Opened(root).minted <= MaxProjects
    /\ project_store' = Opened(root).store
    /\ disk' = Opened(root).disk
    /\ service' = [service EXCEPT !.phase = "up", !.minted = Opened(root).minted]
    /\ UNCHANGED <<orchestratorVars, writer, indexVars, convVars, runtime_config>>

\* runtime_config.update(active_project_id=..., active_project_root_path=...)
\* with the id and root of a loaded project
runtime_config_update(p) ==
    /\ Serving
    /\ p \in project_store
    /\ runtime_config' = [active_project_id |-> p.project_id,
                          active_project_root_path |-> p.root_path]
    /\ service' = [service EXCEPT !.phase = "up"]
    /\ UNCHANGED <<orchestratorVars, writer, indexVars, convVars, project_store, disk>>

\* project_store.close(): every context is released and the service is over
close ==
    /\ Serving
    /\ project_store' = {}
    /\ service' = [service EXCEPT !.phase = "down"]
    /\ UNCHANGED <<orchestratorVars, writer, indexVars, convVars, disk, runtime_config>>

\* shutil.rmtree(project_root) while the service is down
RemoveRoot(root) ==
    /\ service.phase = "down"
    /\ disk[root] # 0
    /\ disk' = [disk EXCEPT ![root] = 0]
    /\ UNCHANGED <<orchestratorVars, writer, indexVars, convVars, project_store,
                   runtime_config, service>>

\* build_services(settings): a new ProjectStore, the runtime config read
\* from its file
Restart ==
    /\ service.phase = "down"
    /\ project_store' = {}
    /\ service' = [service EXCEPT !.phase = "booting", !.config_at_boot = runtime_config]
    /\ UNCHANGED <<orchestratorVars, writer, indexVars, convVars, disk, runtime_config>>

RestoredConfigKept(cfg, exists) == cfg

\* the selection the restore leaves in the runtime config
RestoredConfig(cfg, exists) == IF exists THEN cfg ELSE NoConfig

\* _ensure_active_project_loaded(services): opens the persisted active
\* project when its root still exists, clears the selection when it does not
_ensure_active_project_loaded ==
    /\ service.phase = "booting"
    /\ LET cfg == runtime_config
           selected == cfg.active_project_id # 0
           exists == selected /\ disk[cfg.active_project_root_path] # 0
       IN /\ project_store' = IF exists THEN Opened(cfg.active_project_root_path).store
                                ELSE project_store
          /\ runtime_config' = IF selected THEN RestoredConfig(cfg, exists) ELSE cfg
    /\ service' = [service EXCEPT !.phase = "restored"]
    /\ UNCHANGED <<orchestratorVars, writer, indexVars, convVars, disk>>

StoreNext ==
    \/ \E root \in Roots : open_or_create(root)
    \/ \E p \in project_store : runtime_config_update(p)
    \/ close
    \/ \E root \in Roots : RemoveRoot(root)
    \/ Restart
    \/ _ensure_active_project_loaded

StoreSpec == Init /\ [][StoreNext]_vars

\* C19: after a restart list_projects() is empty until the restore has run;
\* right after the restore, a persisted selection whose root exists is kept
\* and exactly that project is loaded, under its id and root, and a
\* persisted selection whose root is missing is cleared, both fields, with
\* nothing loaded.
C19_RestoreActiveProject ==
    /\ service.phase = "booting" => list_projects = {}
    /\ service.phase = "restored" =>
          LET cfg == service.config_at_boot IN
          IF cfg.active_project_id = 0
             THEN list_projects = {} /\ runtime_config = NoConfig
             ELSE IF disk[cfg.active_project_root_path] # 0
                     THEN /\ list_projects = {[project_id |-> cfg.active_project_id,
                                               root_path |-> cfg.active_project_root_path]}
                          /\ runtime_config = cfg
                     ELSE /\ list_projects = {}
                          /\ runtime_config.active_project_id = 0
                          /\ runtime_config.active_project_root_path = None

\* the restore has loaded the active project and not the other project
\* whose store is on disk
C19_Witness ==
    /\ service.phase = "restored"
    /\ service.config_at_boot.active_project_id # 0
    /\ Cardinality(list_projects) = 1
    /\ \A root \in Roots : disk[root] # 0
    /\ \E p \in list_projects : p.project_id = runtime_config.active_project_id

\* the restore found the root of the active project missing: nothing is
\* loaded, the selection is cleared, the other project's store is still on disk
C19_WitnessRootMissing ==
    /\ service.phase = "restored"
    /\ service.config_at_boot.active_project_id # 0
    /\ disk[service.config_at_boot.active_project_root_path] = 0
    /\ \E root \in Roots : disk[root] # 0
    /\ list_projects = {}
    /\ runtime_config = NoConfig

\* ------------------------------------------------------------------ unhandled errors

\* the error that reached `except Exception`, "" if none did
Raised(r) == task[r].exc

\* C21: a run in which the trigger lookup, the skill bundle loader or the
\* planner raised ends failed and finished with output_summary "Run crashed",
\* the error's message as its error and one run_failed event that carries the
\* message; its task ends normally and untracked; and every run, whatever
\* happened to the others, reaches a terminal status.
C21_UnhandledErrorFailsRun ==
    /\ [](\A r \in Runs :
            (Raised(r) # "" /\ TaskDone(r)) =>
                /\ runs[r].status = "failed"
                /\ runs[r].finished
                /\ runs[r].output_summary = "Run crashed"
                /\ runs[r].error = Raised(r)
                /\ Count(r, "run_failed") = 1
                /\ \A i \in EventsOf(r, "run_failed") : EventLog(r)[i].payload = [error |-> Raised(r)]
                /\ Count(r, "run_completed") = 0
                /\ task[r].pc = "finished"
                /\ r \notin _tasks)
    /\ \A r \in RunIds :
          (r \in Runs /\ Raised(r) # "") ~> (r \in Runs /\ TaskDone(r))
    /\ \A q \in RunIds :
          (q \in Runs) ~> (q \in Runs /\ runs[q].status \in Terminal /\ TaskDone(q))

\* the planner failed in one run, which ended failed, and another run of the
\* same project is done with a completed step
C21_Witness ==
    \E r \in Runs, q \in Runs :
        /\ Raised(r) = "planner failed" /\ TaskDone(r)
        /\ runs[r].status = "failed"
        /\ ProjectOf(q) = ProjectOf(r)
        /\ runs[q].status = "done"
        /\ \E i \in 1..Len(StepsOf(q)) : StepsOf(q)[i].status = "completed"

\* ------------------------------------------------------------------ order of events

\* the events of run r in the order of the log
RunLog(r) == SelectSeq(EventLog(r), LAMBDA e : e.run_id = r)
At_(r, type) == {i \in 1..Len(RunLog(r)) : RunLog(r)[i].type = type}
StepAt(r, type, k) == {i \in At_(r, type) : RunLog(r)[i].payload.step_index = k}
\* run_failed events written by the step tally (line 296), not by a crash
TallyFailed(r) == {i \in At_(r, "run_failed") : "failures" \in DOMAIN RunLog(r)[i].payload}
Before(A, B) == \A j \in B : \E i \in A : i < j
AllBefore(A, B) == \A i \in A, j \in B : i < j

\* the order of a run's events after its first one
EventOrderAfterFirst(r) ==
    /\ Before(At_(r, "run_planned"), At_(r, "run_step_started"))
    /\ \A k \in 1..MaxCmds :
          /\ Before(StepAt(r, "run_step_started", k), StepAt(r, "run_step_completed", k))
          /\ Before(StepAt(r, "run_step_completed", k), StepAt(r, "run_step_started", k + 1))
          /\ Cardinality(StepAt(r, "run_step_started", k)) <= 1
          /\ Cardinality(StepAt(r, "run_step_completed", k)) <= 1
    /\ Cardinality(At_(r, "run_step_started")) - Cardinality(At_(r, "run_step_completed"))
          \in {0, 1}
    /\ AllBefore(At_(r, "run_step_completed"), At_(r, "message_finalized"))
    /\ AllBefore(At_(r, "run_step_started"), At_(r, "message_finalized"))
    /\ Before(At_(r, "message_finalized"), At_(r, "run_completed") \cup TallyFailed(r))
    /\ AllBefore(At_(r, "message_finalized"), At_(r, "run_completed") \cup TallyFailed(r))

\* C22 as stated: the first event of a run is run_started, and the rest of
\* the order holds.
C22_Original ==
    \A r \in Runs :
        /\ RunLog(r) # <<>> => RunLog(r)[1].type = "run_started"
        /\ EventOrderAfterFirst(r)

\* C22: in the log of one run, whatever other runs interleave, run_started
\* comes first unless the run was cancelled before its task's first step, in
\* which case run_cancelled is its only event; run_planned comes before any
\* run_step_started; run_step_started(i) before run_step_completed(i) before
\* run_step_started(i+1), each at most once, at most one step started and not
\* completed; message_finalized after every step event and before
\* run_completed or run_failed{failures}.
C22_EventOrder ==
    \A r \in Runs :
        /\ RunLog(r) # <<>> =>
              \/ RunLog(r)[1].type = "run_started"
              \/ /\ task[r].pc \in {"start", "cancelled"}
                 /\ \A i \in 1..Len(RunLog(r)) : RunLog(r)[i].type = "run_cancelled"
        /\ Cardinality(At_(r, "run_started")) <= 1
        /\ EventOrderAfterFirst(r)

\* two runs of one project, each with a completed step and its final
\* message, whose events alternate in the log: the second run started
\* between the first run's two step events
C22_Witness ==
    \E r \in Runs, q \in Runs :
        /\ r # q /\ ProjectOf(r) = ProjectOf(q)
        /\ At_(r, "message_finalized") # {} /\ At_(q, "message_finalized") # {}
        /\ StepAt(r, "run_step_completed", 1) # {} /\ StepAt(q, "run_step_completed", 1) # {}
        /\ \E i, j, k \in 1..Len(EventLog(r)) :
              /\ i < j /\ j < k
              /\ EventLog(r)[i].run_id = r /\ EventLog(r)[i].type = "run_step_started"
              /\ EventLog(r)[j].run_id = q /\ EventLog(r)[j].type = "run_started"
              /\ EventLog(r)[k].run_id = r /\ EventLog(r)[k].type = "run_step_completed"

\* ------------------------------------------------------------------ after cancel_run

MessagesOfRun(r) == SelectSeq(messages[ProjectOf(r)], LAMBDA m : m.run_id = r)
SagaEvents == {"run_planned", "run_step_started", "run_step_completed", "message_finalized",
               "run_completed", "run_failed"}
SagaLog(r) == SelectSeq(RunLog(r), LAMBDA e : e.type \in SagaEvents)

\* C23: once a run is cancelled, no step of the program creates or finalizes
\* a RunStep of it, creates a tool or assistant message for it, or appends a
\* run_planned, run_step_started, run_step_completed, message_finalized,
\* run_completed or run_failed event for it, also when the command that was
\* executing returns afterwards.
C23_NoProgressAfterCancel ==
    [][\A r \in Runs :
          runs[r].status = "cancelled" =>
              /\ StepsOf(r)' = StepsOf(r)
              /\ MessagesOfRun(r)' = MessagesOfRun(r)
              /\ SagaLog(r)' = SagaLog(r)
              /\ runs'[r].status = "cancelled"]_vars

\* cancel_run hit the run while its command was executing; the command
\* returned afterwards and its outcome was dropped; the task has ended and
\* the step is still not finalized
C23_Witness ==
    \E r \in Runs :
        /\ UserCancelled(r) /\ TaskDone(r)
        /\ runs[r].status = "cancelled"
        /\ thread[r] = "idle"
        /\ task[r].result.kind = "none"
        /\ Len(StepsOf(r)) = 1 /\ StepsOf(r)[1].status = "running"
        /\ Count(r, "run_step_completed") = 0
        /\ MessagesOfRun(r) = <<>>

\* ------------------------------------------------------------------ final assistant message

AssistantMessages(r) == SelectSeq(MessagesOfRun(r), LAMBDA m : m.role = "assistant")

\* the run ended through the step tally of lines 288-314
Tallied(r) ==
    \/ runs[r].status = "done"
    \/ runs[r].status = "failed" /\ runs[r].error = "One or more run steps failed"

\* C24: whenever the project lock is not held, a run has a message_finalized
\* event and an assistant message tagged with its run id exactly when it is
\* done or failed with "One or more run steps failed", the event names that
\* message, a crashed or cancelled run has neither, and no run has more than
\* one of either.
C24_FinalMessageWithTerminalStatus ==
    \A r \in Runs :
        lock[ProjectOf(r)] = Free =>
            /\ Count(r, "message_finalized") = (IF Tallied(r) THEN 1 ELSE 0)
            /\ Len(AssistantMessages(r)) = (IF Tallied(r) THEN 1 ELSE 0)
            /\ \A i \in EventsOf(r, "message_finalized") :
                  EventLog(r)[i].payload.message_id = AssistantMessages(r)[1].id
            /\ (Crashed(r) \/ runs[r].status = "cancelled") =>
                  Count(r, "message_finalized") = 0 /\ AssistantMessages(r) = <<>>

\* with the lock free: a run failed through the tally with its final
\* message, a crashed run without one
C24_Witness ==
    \E r \in Runs, q \in Runs :
        /\ lock[ProjectOf(r)] = Free /\ lock[ProjectOf(q)] = Free
        /\ runs[r].status = "failed" /\ runs[r].error = "One or more run steps failed"
        /\ Count(r, "message_finalized") = 1 /\ Len(AssistantMessages(r)) = 1
        /\ Crashed(q) /\ AssistantMessages(q) = <<>>

\* ------------------------------------------------------------------ failure count

\* the steps of run r that finish_run_step marked failed
StepsMarkedFailed(r) == {i \in 1..Len(StepsOf(r)) : StepsOf(r)[i].status = "failed"}

\* C25: for a run that ended through the step tally, with n planned commands
\* and f RunSteps of status failed: 0 <= f <= n, the task counted f failures,
\* one step per command and none twice, output_summary names n and f, and
\* run_failed{failures} carries f; a done run has f = 0 and no run_failed.
C25_FailureCount ==
    \A r \in Runs :
        Tallied(r) =>
            LET n == task[r].plan.commands
                f == Cardinality(StepsMarkedFailed(r))
            IN /\ 0 <= f /\ f <= n
               /\ task[r].failures = f
               /\ Len(StepsOf(r)) = n
               /\ \A i \in 1..n : StepsOf(r)[i].step_index = i /\ StepsOf(r)[i].status # "running"
               /\ runs[r].output_summary = (IF f > 0 THEN FailedSummary(n, f) ELSE DoneSummary(n))
               /\ runs[r].status = "failed" <=> f > 0
               /\ \A i \in TallyFailed(r) : RunLog(r)[i].payload.failures = f
               /\ Cardinality(TallyFailed(r)) <= 1
               /\ runs[r].status = "done" => At_(r, "run_failed") = {}

\* two commands, one that returned exit code 1 and one whose execution
\* raised: "2 step(s), 2 failed" and run_failed{failures: 2}
C25_Witness ==
    \E r \in Runs :
        /\ Tallied(r) /\ TaskDone(r)
        /\ task[r].plan.commands = 2
        /\ runs[r].output_summary = "2 step(s), 2 failed"
        /\ \E i \in StepsMarkedFailed(r) : StepsOf(r)[i].exit_code = 1
        /\ \E i \in StepsMarkedFailed(r) : StepsOf(r)[i].error # ""
        /\ \E i \in TallyFailed(r) : RunLog(r)[i].payload.failures = 2

====
